---- MODULE Spec2Model ----
(***************************************************************************)
(* COCO viewer (cocoviewer.py): the circular image cursor ImageList, the   *)
(* data layer Data and the event handlers of Controller.                   *)
(*                                                                         *)
(* An image entry (id, file_name) is modelled by its id, an object of the  *)
(* annotation record by its image_id and category_id.  Python's None is    *)
(* the value NONE, a Python list is a sequence, and list index i (from 0)  *)
(* is sequence index i + 1.                                                *)
(***************************************************************************)
EXTENDS Integers, Sequences, FiniteSets, TLC

\* ---- bounds of the model
MaxItems == 3       \* longest image list handed to a stand-alone ImageList
MaxCalls == 5       \* calls made on a stand-alone ImageList

MaxAnns == 2        \* most objects in the annotation record of the viewer

ImageIds == {1, 2}
CategoryIds == {1, 2}

\* the runs of the program that are compared with each other
Runs == {1, 2}

\* Python's None, for a field that otherwise holds a list of indices or ids
NONE == <<-1>>

\* all sequences over S of length at most k
RECURSIVE SeqsUpTo(_, _)
SeqsUpTo(S, k) ==
    IF k = 0 THEN {<<>>}
    ELSE LET shorter == SeqsUpTo(S, k - 1)
         IN  shorter \cup {Append(s, x) : s \in {t \in shorter : Len(t) = k - 1}, x \in S}

\* sorted(list(set)) of Python, for a set of integers
RECURSIVE SortedSeq(_)
SortedSeq(S) ==
    IF S = {} THEN <<>>
    ELSE LET m == CHOOSE x \in S : \A y \in S : x <= y
         IN  <<m>> \o SortedSeq(S \ {m})

\* the set of the elements of a list
Range(s) == {s[i] : i \in 1..Len(s)}

VARIABLES
    pc,             \* "list": an ImageList used on its own; "main", "running",
                    \* "crashed": the viewer before, in and after a failed start;
                    \* "parse": get_categories used on its own; "compose",
                    \* "composed": before and after one compose_image call;
                    \* "label", "labelled": before and after one draw_bboxes call
    image_list,     \* ImageList.image_list
    n,              \* ImageList.n
    calls,          \* the calls made on the ImageList so far, with their outcomes
    annotations,    \* Data.instances["annotations"]
    missing,        \* the listed images whose file is not in the image folder
    current_image,  \* Data.current_image (0: not set)
    img_obj_categories,     \* Data.img_obj_categories
    img_categories,         \* Data.img_categories
    current_composed_image, \* Data.current_composed_image
    compose_args,   \* the arguments of the last compose_image call
    bboxes_on_global, labels_on_global, masks_on_global,
    bboxes_on_local, labels_on_local, masks_on_local,
    selected_cats,  \* Controller.selected_cats
    selected_objs,  \* Controller.selected_objs
    raised,         \* the exception that left the last handler, "none" if none
    categories_list,    \* instances["categories"]: the declared [id, name] entries
    random_state,   \* the state of the random module's generator, in every run
    parsed,         \* what get_categories has returned in every run of the program
    Data_categories,    \* Data.categories
    font,           \* the size (tw, th) draw.textsize gives every category name
    drawn           \* the calls made on the ImageDraw of the overlay, in order

listVars == <<image_list, n, calls>>
dataVars == <<current_image, img_obj_categories, img_categories,
              current_composed_image, compose_args>>
globalVars == <<bboxes_on_global, labels_on_global, masks_on_global>>
localVars == <<bboxes_on_local, labels_on_local, masks_on_local>>
selectVars == <<selected_cats, selected_objs>>
viewerVars == <<annotations, missing, dataVars, globalVars, localVars, selectVars, raised>>
colourVars == <<categories_list, random_state, parsed, Data_categories>>
drawVars == <<font, drawn>>

vars == <<pc, listVars, viewerVars, colourVars, drawVars>>

\* ImageList.max, set once from the list at construction
max == Len(image_list)

\* list[i] of Python: i counts from 0, a negative i counts from the end,
\* anything else raises IndexError
GetItem(list, i) ==
    IF 0 <= i /\ i < Len(list) THEN [raised |-> "none", value |-> list[i + 1]]
    ELSE IF i < 0 /\ -Len(list) <= i THEN [raised |-> "none", value |-> list[Len(list) + i + 1]]
    ELSE [raised |-> "IndexError", value |-> 0]

\* ImageList.next with the comparison n <= max
ImageList_next_le(list, pos) ==
    LET n1 == pos + 1
        n2 == IF n1 <= Len(list) THEN n1 ELSE 0
    IN  [n |-> n2] @@ GetItem(list, n2)

\* ImageList.next: the position it leaves and what it returns or raises
ImageList_next(list, pos) ==
    LET n1 == pos + 1
        n2 == IF n1 < Len(list) THEN n1 ELSE 0
    IN  [n |-> n2] @@ GetItem(list, n2)

\* ImageList.prev without the wrap at position 0
ImageList_prev_nowrap(list, pos) ==
    LET n2 == pos - 1
    IN  [n |-> n2] @@ GetItem(list, n2)

\* ImageList.prev wrapping from position 0 to max instead of max - 1
ImageList_prev_wrapmax(list, pos) ==
    LET n2 == IF pos = 0 THEN Len(list) ELSE pos - 1
    IN  [n |-> n2] @@ GetItem(list, n2)

\* ImageList.prev: the position it leaves and what it returns or raises
ImageList_prev(list, pos) ==
    LET n2 == IF pos = 0 THEN Len(list) - 1 ELSE pos - 1
    IN  [n |-> n2] @@ GetItem(list, n2)

\* ---- a stand-alone ImageList, as a caller of the class uses it

\* no composed image yet (current_composed_image = None), no compose call yet
NoComposite ==
    [image |-> 0, bboxes_on |-> FALSE, labels_on |-> FALSE, masks_on |-> FALSE,
     ignore |-> <<>>]

\* the fields of Data and Controller before their constructors have run
Unconstructed ==
    /\ current_image = 0
    /\ img_obj_categories = NONE
    /\ img_categories = NONE
    /\ current_composed_image = NoComposite
    /\ compose_args = NoComposite
    /\ bboxes_on_global = TRUE /\ labels_on_global = TRUE /\ masks_on_global = TRUE
    /\ bboxes_on_local = TRUE /\ labels_on_local = TRUE /\ masks_on_local = TRUE
    /\ selected_cats = NONE
    /\ selected_objs = NONE
    /\ raised = "none"

\* a run that has not called get_categories yet
NotParsed == [done |-> FALSE, entered |-> 0, categories |-> <<>>]

\* the annotation file has not been parsed and nothing has been drawn
NothingDrawn ==
    /\ categories_list = <<>>
    /\ random_state = [r \in Runs |-> 0]
    /\ parsed = [r \in Runs |-> NotParsed]
    /\ Data_categories = <<>>
    /\ font = <<>>
    /\ drawn = <<>>

\* ImageList.__init__
InitImageList ==
    /\ pc = "list"
    /\ image_list \in SeqsUpTo(ImageIds, MaxItems)
    /\ n = -1
    /\ calls = <<>>
    /\ annotations = <<>>
    /\ missing = {}
    /\ Unconstructed
    /\ NothingDrawn

CallNext ==
    /\ pc = "list"
    /\ Len(calls) < MaxCalls
    /\ LET r == ImageList_next(image_list, n)
       IN  /\ n' = r.n
           /\ calls' = Append(calls, [op |-> "next"] @@ r)
    /\ UNCHANGED <<pc, image_list, viewerVars, colourVars, drawVars>>

CallPrev ==
    /\ pc = "list"
    /\ Len(calls) < MaxCalls
    /\ LET r == ImageList_prev(image_list, n)
       IN  /\ n' = r.n
           /\ calls' = Append(calls, [op |-> "prev"] @@ r)
    /\ UNCHANGED <<pc, image_list, viewerVars, colourVars, drawVars>>

NextImageList == CallNext \/ CallPrev

SpecImageList == InitImageList /\ [][NextImageList]_vars

\* ---- the viewer: Data and Controller, driven by main() and the bound events

\* the record's images, in source order (get_images).  Image ids identify
\* images and are only compared for equality, so the images are numbered in the
\* order of the list; an id beyond the list is an image the record does not list.
ImageLists == {[i \in 1..k |-> i] : k \in 0..Cardinality(ImageIds)}

\* the record's annotations
Annotations == SeqsUpTo([image_id : ImageIds, category_id : CategoryIds], MaxAnns)

\* compose_image, lines 66-67: the categories of the objects of image img_id
ObjCategories(img_id) ==
    LET objects == SelectSeq(annotations, LAMBDA obj : obj.image_id = img_id)
    IN  [i \in 1..Len(objects) |-> objects[i].category_id]

\* the fields of Data that a handler reads and writes, as one value
DataState ==
    [n |-> n, current_image |-> current_image,
     img_obj_categories |-> img_obj_categories, img_categories |-> img_categories,
     current_composed_image |-> current_composed_image,
     compose_args |-> compose_args, raised |-> "none"]

\* compose_image stepping the cursor to the next position as it composes
compose_image_stepping(d, image, bboxes_on, labels_on, masks_on, ignore) ==
    LET args == [image |-> image, bboxes_on |-> bboxes_on, labels_on |-> labels_on,
                 masks_on |-> masks_on, ignore |-> ignore]
        n2 == ImageList_next(image_list, d.n).n
    IN  IF image \in missing
        THEN [d EXCEPT !.n = n2, !.compose_args = args, !.raised = "FileNotFoundError"]
        ELSE [d EXCEPT !.n = n2, !.compose_args = args,
                       !.img_obj_categories = ObjCategories(image),
                       !.img_categories = SortedSeq(Range(ObjCategories(image))),
                       !.current_composed_image =
                           [NoComposite EXCEPT !.image = image, !.ignore = ignore]]

\* Data.compose_image(image, bboxes_on, labels_on, masks_on, ignore) on the data
\* state d.  Image.open raises when the file is missing; the image folder does
\* not change while the viewer runs.  The composite is kept as the image and
\* the ignore list it was drawn from.
compose_image(d, image, bboxes_on, labels_on, masks_on, ignore) ==
    LET args == [image |-> image, bboxes_on |-> bboxes_on, labels_on |-> labels_on,
                 masks_on |-> masks_on, ignore |-> ignore]
    IN  IF image \in missing
        THEN [d EXCEPT !.compose_args = args, !.raised = "FileNotFoundError"]
        ELSE [d EXCEPT !.compose_args = args,
                       !.img_obj_categories = ObjCategories(image),
                       !.img_categories = SortedSeq(Range(ObjCategories(image))),
                       !.current_composed_image =
                           [NoComposite EXCEPT !.image = image, !.ignore = ignore]]

\* Data.next_image() / Data.previous_image() keeping the image of before
Data_move_stale(d, r) ==
    IF r.raised # "none"
    THEN [d EXCEPT !.n = r.n, !.raised = r.raised]
    ELSE compose_image([d EXCEPT !.n = r.n], d.current_image, TRUE, TRUE, TRUE, <<>>)

\* Data.next_image() / Data.previous_image() as the controller calls them,
\* without arguments: move the cursor, then compose with the defaults
Data_move(d, r) ==
    IF r.raised # "none"
    THEN [d EXCEPT !.n = r.n, !.raised = r.raised]
    ELSE compose_image([d EXCEPT !.n = r.n, !.current_image = r.value],
                       r.value, TRUE, TRUE, TRUE, <<>>)

next_image(d) == Data_move(d, ImageList_next(image_list, d.n))

previous_image(d) == Data_move(d, ImageList_prev(image_list, d.n))

\* update_img, lines 410-413: the ignore list
update_img_ignore(sel_objs, obj_categories) ==
    IF sel_objs = NONE THEN <<>>
    ELSE SortedSeq({i \in 0..(Len(obj_categories) - 1) : i \notin Range(sel_objs)})

\* a keyword argument that may be left out: <<>> is None, <<v>> is v
Arg(a, default) == IF a = <<>> THEN default ELSE a[1]

\* the menu variables as update_img reads them
Globals == [bboxes |-> bboxes_on_global, labels |-> labels_on_global,
            masks |-> masks_on_global]

\* Controller.update_img(bboxes_on, labels_on, masks_on) on the data state d,
\* with the menu variables g and the object selection sel_objs; sets the local
\* flags and the Data fields
update_img(g, bboxes_on, labels_on, masks_on, sel_objs, d) ==
    LET b == Arg(bboxes_on, g.bboxes)
        l == Arg(labels_on, g.labels)
        m == Arg(masks_on, g.masks)
        ignore == update_img_ignore(sel_objs, d.img_obj_categories)
    IN  \E d2 \in {compose_image(d, d.current_image, b, l, m, ignore)} :
            /\ bboxes_on_local' = b
            /\ labels_on_local' = l
            /\ masks_on_local' = m
            /\ n' = d2.n
            /\ current_image' = d2.current_image
            /\ img_obj_categories' = d2.img_obj_categories
            /\ img_categories' = d2.img_categories
            /\ current_composed_image' = d2.current_composed_image
            /\ compose_args' = d2.compose_args
            /\ raised' = d2.raised

\* the handler stops at the exception that left Data: only Data has changed
Aborted(d) ==
    /\ n' = d.n
    /\ current_image' = d.current_image
    /\ img_obj_categories' = d.img_obj_categories
    /\ img_categories' = d.img_categories
    /\ current_composed_image' = d.current_composed_image
    /\ compose_args' = d.compose_args
    /\ raised' = d.raised
    /\ UNCHANGED <<localVars, selectVars>>

\* main() has read the annotation file
Init ==
    /\ pc = "main"
    /\ image_list \in ImageLists
    /\ annotations \in Annotations
    /\ missing \in SUBSET Range(image_list)
    /\ n = -1
    /\ calls = <<>>
    /\ Unconstructed
    /\ NothingDrawn

\* main(), lines 610-616: Data(...) takes the first image, Controller(...)
\* composes it; an exception in either ends the program
Start ==
    /\ pc = "main"
    /\ \E r \in {ImageList_next(image_list, n)} :
        \E d \in {[DataState EXCEPT !.n = r.n, !.current_image = r.value]} :
            IF r.raised # "none"
            THEN /\ pc' = "crashed"
                 /\ n' = r.n
                 /\ raised' = r.raised
                 /\ UNCHANGED <<dataVars, globalVars, localVars, selectVars>>
            ELSE /\ pc' = IF r.value \in missing THEN "crashed" ELSE "running"
                 /\ UNCHANGED <<globalVars, selectVars>>
                 /\ update_img(Globals, <<>>, <<>>, <<>>, NONE, d)
    /\ UNCHANGED <<image_list, calls, annotations, missing, colourVars, drawVars>>

\* Controller.next_img / Controller.prev_img after Data has moved to d
Navigated(d) ==
    IF d.raised # "none"
    THEN Aborted(d)
    ELSE /\ selected_cats' = NONE
         /\ selected_objs' = NONE
         /\ update_img(Globals, <<>>, <<>>, <<>>, NONE, d)

\* Controller.next_img
NextImg ==
    /\ pc = "running"
    /\ \E d \in {next_image(DataState)} : Navigated(d)
    /\ UNCHANGED <<pc, image_list, calls, annotations, missing, colourVars, drawVars, globalVars>>

\* Controller.prev_img
PrevImg ==
    /\ pc = "running"
    /\ \E d \in {previous_image(DataState)} : Navigated(d)
    /\ UNCHANGED <<pc, image_list, calls, annotations, missing, colourVars, drawVars, globalVars>>

\* a View menu checkbutton flips its variable and runs update_img()
MenuToggle ==
    /\ pc = "running"
    /\ \E entry \in {"BBoxes", "Labels", "Masks"} : \E ds \in {DataState} :
        LET g == [bboxes |-> IF entry = "BBoxes" THEN ~bboxes_on_global ELSE bboxes_on_global,
                  labels |-> IF entry = "Labels" THEN ~labels_on_global ELSE labels_on_global,
                  masks |-> IF entry = "Masks" THEN ~masks_on_global ELSE masks_on_global]
        IN  /\ bboxes_on_global' = g.bboxes
            /\ labels_on_global' = g.labels
            /\ masks_on_global' = g.masks
            /\ update_img(g, <<>>, <<>>, <<>>, selected_objs, ds)
    /\ UNCHANGED <<pc, image_list, calls, annotations, missing, colourVars, drawVars, selectVars>>

\* a slider runs update_img() (the slider values are not part of the model)
SliderChange ==
    /\ pc = "running"
    /\ \E ds \in {DataState} :
        update_img(Globals, <<>>, <<>>, <<>>, selected_objs, ds)
    /\ UNCHANGED <<pc, image_list, calls, annotations, missing, colourVars, drawVars, globalVars, selectVars>>

\* Controller.toggle_bboxes
ToggleBboxes ==
    /\ pc = "running"
    /\ \E ds \in {DataState} :
        update_img(Globals, <<~bboxes_on_local>>, <<>>, <<>>, selected_objs, ds)
    /\ UNCHANGED <<pc, image_list, calls, annotations, missing, colourVars, drawVars, globalVars, selectVars>>

\* Controller.toggle_labels
ToggleLabels ==
    /\ pc = "running"
    /\ \E ds \in {DataState} :
        update_img(Globals, <<>>, <<~labels_on_local>>, <<>>, selected_objs, ds)
    /\ UNCHANGED <<pc, image_list, calls, annotations, missing, colourVars, drawVars, globalVars, selectVars>>

\* Controller.toggle_masks
ToggleMasks ==
    /\ pc = "running"
    /\ \E ds \in {DataState} :
        update_img(Globals, <<>>, <<>>, <<~masks_on_local>>, selected_objs, ds)
    /\ UNCHANGED <<pc, image_list, calls, annotations, missing, colourVars, drawVars, globalVars, selectVars>>

\* Controller.toggle_all with the focus on the image (with the focus in a
\* list box the handler returns at once)
ToggleAll ==
    /\ pc = "running"
    /\ LET on == ~(bboxes_on_local \/ masks_on_local)
       IN  \E ds \in {DataState} :
               update_img(Globals, <<on>>, <<>>, <<on>>, selected_objs, ds)
    /\ UNCHANGED <<pc, image_list, calls, annotations, missing, colourVars, drawVars, globalVars, selectVars>>

\* the 0-based positions of the value v in a list, ascending
Positions(list, v) == SortedSeq({i - 1 : i \in {j \in 1..Len(list) : list[j] = v}})

\* select_category, lines 531-535, taking the category position for the id
RECURSIVE select_category_objs_bypos(_, _, _)
select_category_objs_bypos(cats, obj_categories, categories) ==
    IF cats = <<>> THEN <<>>
    ELSE Positions(obj_categories, Head(cats) + 1)
         \o select_category_objs_bypos(Tail(cats), obj_categories, categories)

\* select_category, lines 531-535: the objects of the selected categories
RECURSIVE select_category_objs(_, _, _)
select_category_objs(cats, obj_categories, categories) ==
    IF cats = <<>> THEN <<>>
    ELSE Positions(obj_categories, categories[Head(cats) + 1])
         \o select_category_objs(Tail(cats), obj_categories, categories)

\* select_object, lines 556-560, taking the first category for every object
RECURSIVE select_object_cats_first(_, _, _)
select_object_cats_first(objs, obj_categories, categories) ==
    IF objs = <<>> THEN <<>>
    ELSE <<0>> \o select_object_cats_first(Tail(objs), obj_categories, categories)

\* select_object, lines 556-560: the category positions of the selected objects
RECURSIVE select_object_cats(_, _, _)
select_object_cats(objs, obj_categories, categories) ==
    IF objs = <<>> THEN <<>>
    ELSE Positions(categories, obj_categories[Head(objs) + 1])
         \o select_object_cats(Tail(objs), obj_categories, categories)

\* Controller.select_category: the category list box holds one line for each
\* entry of img_categories, of which the user has selected the positions ids
SelectCategory ==
    /\ pc = "running"
    /\ \E ids \in SUBSET (0..(Len(img_categories) - 1)) : \E ds \in {DataState} :
        LET objs == select_category_objs(SortedSeq(ids), img_obj_categories, img_categories)
        IN  /\ selected_cats' = SortedSeq(ids)
            /\ selected_objs' = objs
            /\ update_img(Globals, <<>>, <<>>, <<>>, objs, ds)
    /\ UNCHANGED <<pc, image_list, calls, annotations, missing, colourVars, drawVars, globalVars>>

\* Controller.select_object: the object list box holds one line for each entry
\* of img_obj_categories, of which the user has selected the positions ids
SelectObject ==
    /\ pc = "running"
    /\ \E ids \in SUBSET (0..(Len(img_obj_categories) - 1)) : \E ds \in {DataState} :
        /\ selected_objs' = SortedSeq(ids)
        /\ selected_cats' = select_object_cats(SortedSeq(ids), img_obj_categories, img_categories)
        /\ update_img(Globals, <<>>, <<>>, <<>>, SortedSeq(ids), ds)
    /\ UNCHANGED <<pc, image_list, calls, annotations, missing, colourVars, drawVars, globalVars>>

\* Controller.save_image: the dialog gives a file name or is cancelled; the
\* composite is written to the file, no field of Data or Controller changes
SaveImage ==
    /\ pc = "running"
    /\ \E file \in {"", "image.png"} : UNCHANGED vars

Next ==
    \/ Start
    \/ NextImg
    \/ PrevImg
    \/ MenuToggle
    \/ SliderChange
    \/ ToggleBboxes
    \/ ToggleLabels
    \/ ToggleMasks
    \/ ToggleAll
    \/ SelectCategory
    \/ SelectObject
    \/ SaveImage

Spec == Init /\ [][Next]_vars

\* ---- get_categories: the colour of every category

MaxFew == 2         \* the short category lists have up to this many entries
MaxOver == 2        \* the long category lists exceed the palette by up to this
RngStates == 4      \* the states of the random module's generator

PaletteSize == 80   \* range(80): the colours get_categories prepares
Seed == 42          \* random.seed(42)
ChannelMax == 255   \* int(x * 255)

\* the hues x for which the binary floating point product of the fractional
\* channel with 255 falls just below the whole number of exact arithmetic
FloatShortfall == {16, 56, 72}

\* colorsys.hsv_to_rgb(x / 80, 1., 1.) with every channel taken through
\* int(c * 255)
hsv_to_rgb(x) ==
    LET i == (6 * x) \div PaletteSize
        r == (6 * x) % PaletteSize
        short == IF x \in FloatShortfall THEN 1 ELSE 0
        v == ChannelMax
        t == ((ChannelMax * r) \div PaletteSize) - short
        q == ((ChannelMax * (PaletteSize - r)) \div PaletteSize) - short
    IN  CASE i = 0 -> <<v, t, 0>>
          [] i = 1 -> <<q, v, 0>>
          [] i = 2 -> <<0, v, t>>
          [] i = 3 -> <<0, q, v>>
          [] i = 4 -> <<t, 0, v>>
          [] OTHER -> <<v, 0, q>>

\* get_categories, lines 133-135: the colours before the shuffle
Palette == [k \in 1..PaletteSize |-> hsv_to_rgb(k - 1)]

\* The generator of the random module is a deterministic machine over its
\* states: random.seed(a) puts it into the state that a determines, and every
\* draw reads the state and steps it.
random_seed(a) == a % RngStates

random_step(s) == (5 * s + 3) % RngStates

\* random.shuffle(x) from the generator state s: for i from len(x) - 1 down to
\* 1, exchange x[i] with x[j] for a drawn j in 0..i
RECURSIVE shuffle_from(_, _, _)
shuffle_from(x, i, s) ==
    IF i < 1 THEN [list |-> x, state |-> s]
    ELSE LET j == s % (i + 1)
         IN  shuffle_from([x EXCEPT ![i + 1] = x[j + 1], ![j + 1] = x[i + 1]],
                          i - 1, random_step(s))

random_shuffle(x, s) == shuffle_from(x, Len(x) - 1, s)

\* the colours of get_categories after random.shuffle(colors), for every state
\* the generator can be in when the shuffle starts
ShuffledColors == [s \in 0..(RngStates - 1) |-> random_shuffle(Palette, s).list]

\* get_categories without random.seed(42): the shuffle draws from the state the
\* generator is in
get_categories_unseeded(instances_categories, s) ==
    LET colors == ShuffledColors[s]
        k == IF Len(instances_categories) < Len(colors)
             THEN Len(instances_categories) ELSE Len(colors)
        ids == {instances_categories[i].id : i \in 1..k}
    IN  [id \in ids |->
            LET last == CHOOSE i \in 1..k :
                            /\ instances_categories[i].id = id
                            /\ \A j \in (i + 1)..k : instances_categories[j].id # id
            IN  [name |-> instances_categories[last].name, colour |-> colors[last]]]

\* get_categories(instances) entered with the generator in state s: the
\* shuffled colours, zip of the [id, name] pairs with them (zip ends with the
\* shorter of the two), and dict of the pairs (a later pair replaces an earlier
\* one of the same id)
get_categories(instances_categories, s) ==
    LET colors == ShuffledColors[random_seed(Seed)]
        k == IF Len(instances_categories) < Len(colors)
             THEN Len(instances_categories) ELSE Len(colors)
        ids == {instances_categories[i].id : i \in 1..k}
    IN  [id \in ids |->
            LET last == CHOOSE i \in 1..k :
                            /\ instances_categories[i].id = id
                            /\ \A j \in (i + 1)..k : instances_categories[j].id # id
            IN  [name |-> instances_categories[last].name, colour |-> colors[last]]]

\* the category lists get_categories is given: k entries of ids 1..k, or k
\* entries that repeat the ids 1..3 under changing names
CategoryList(k, shape) ==
    [i \in 1..k |->
        [id |-> IF shape = "distinct" THEN i ELSE ((i - 1) % 3) + 1,
         name |-> IF i % 2 = 1 THEN "a" ELSE "b"]]

CategoryCounts == (0..MaxFew) \cup ((PaletteSize - 1)..(PaletteSize + MaxOver))

CategoryLists == {CategoryList(k, shape) : k \in CategoryCounts, shape \in {"distinct", "repeating"}}

\* two runs of the program about to parse the same annotation file, the
\* generator of each in any state
InitCategories ==
    /\ pc = "parse"
    /\ categories_list \in CategoryLists
    /\ random_state \in [Runs -> 0..(RngStates - 1)]
    /\ parsed = [r \in Runs |-> NotParsed]
    /\ Data_categories = <<>>
    /\ font = <<>>
    /\ drawn = <<>>
    /\ image_list = <<>>
    /\ n = -1
    /\ calls = <<>>
    /\ annotations = <<>>
    /\ missing = {}
    /\ Unconstructed

\* a run calls get_categories; random.seed(None) at its line 138 leaves the
\* generator in a state taken from the system
ParseCoco ==
    /\ pc = "parse"
    /\ \E r \in Runs : \E c \in {get_categories(categories_list, random_state[r])} :
        /\ parsed' = [parsed EXCEPT ![r] = [done |-> TRUE, entered |-> random_state[r], categories |-> c]]
        /\ \E s \in 0..(RngStates - 1) : random_state' = [random_state EXCEPT ![r] = s]
    /\ UNCHANGED <<pc, listVars, viewerVars, categories_list, Data_categories, drawVars>>

\* other code of a run draws a random number
RandomDraw ==
    /\ pc = "parse"
    /\ \E r \in Runs :
        random_state' = [random_state EXCEPT ![r] = random_step(random_state[r])]
    /\ UNCHANGED <<pc, listVars, viewerVars, categories_list, parsed, Data_categories, drawVars>>

NextCategories == ParseCoco \/ RandomDraw

SpecCategories == InitCategories /\ [][NextCategories]_vars

\* ---- compose_image, draw_masks and draw_bboxes: what is drawn on the overlay

MaxObjs == 2        \* most objects in the record a compose call reads
MaxCoord == 2       \* largest coordinate and extent of a box that gets a label
MaxText == 3        \* largest width and height of a label text

DefaultWidth == 1   \* compose_image(..., width: int = 1, ...)
DefaultAlpha == 128 \* compose_image(..., alpha: int = 128, ...)

\* the text colour (255, 255, 255) of draw.text
White == <<ChannelMax, ChannelMax, ChannelMax>>

\* obj["segmentation"]: a list of polygons, each a flat list of x, y pairs, or
\* a dict holding a run-length encoding
Segmentations ==
    {[type |-> "list", data |-> << <<0, 0, 10, 0, 10, 10>> >>],
     [type |-> "dict", data |-> <<>>]}

\* obj["bbox"] = [x, y, width, height]
BBoxes == {<<10, 10, 50, 50>>, <<0, 0, 20, 30>>}

\* the objects of the annotation record
Objects == [image_id : ImageIds, category_id : CategoryIds,
            bbox : BBoxes, segmentation : Segmentations]

\* one call on the ImageDraw object: draw.polygon, draw.rectangle or draw.text
\* for the object at position obj of the image's objects; layer tells the mask,
\* the box and the label of the object apart
DrawCall(layer, op, obj, xy, outline, fill, width, text) ==
    [layer |-> layer, op |-> op, obj |-> obj, xy |-> xy, outline |-> outline,
     fill |-> fill, width |-> width, text |-> text]

Max(a, b) == IF a >= b THEN a ELSE b

\* draw_bboxes, lines 149-152, leaving width and height as the far corner
bbox_corners_xywh(bbox) == <<bbox[1], bbox[2], bbox[3], bbox[4]>>

\* draw_bboxes, lines 149-152: [x, y, x + w, y + h]
bbox_corners(bbox) == <<bbox[1], bbox[2], bbox[1] + bbox[3], bbox[2] + bbox[4]>>

\* the label rectangle with a top that is clamped to 0 instead of the box top
label_box_top0(b, tw, th) ==
    LET tx0a == b[1]
        ty0a == b[2] - th
        tx0b == IF tx0a < 0 THEN Max(b[1], Max(b[1], tx0a)) ELSE tx0a
        ty0b == IF ty0a < 0 THEN Max(0, ty0a) ELSE ty0a
        tx1a == tx0b + tw
        ty1 == ty0b + th
        tx0c == IF tx1a > b[3] THEN Max(0, tx0b - (tx1a - b[3])) ELSE tx0b
        tx1b == IF tx1a > b[3] THEN (IF tx0c = 0 THEN tw ELSE b[3]) ELSE tx1a
    IN  <<tx0c, ty0b, tx1b, ty1>>

\* the label rectangle with a right edge that stays on the box's right edge
label_box_boxright(b, tw, th) ==
    LET tx0a == b[1]
        ty0a == b[2] - th
        tx0b == IF tx0a < 0 THEN Max(b[1], Max(b[1], tx0a)) ELSE tx0a
        ty0b == IF ty0a < 0 THEN Max(b[2], Max(0, ty0a)) ELSE ty0a
        tx1a == tx0b + tw
        ty1 == ty0b + th
        tx0c == IF tx1a > b[3] THEN Max(0, tx0b - (tx1a - b[3])) ELSE tx0b
        tx1b == IF tx1a > b[3] THEN b[3] ELSE tx1a
    IN  <<tx0c, ty0b, tx1b, ty1>>

\* draw_bboxes, lines 163-175: the label rectangle (tx0, ty0, tx1, ty1) for the
\* box b = [x0, y0, x1, y1] and a text of width tw and height th
label_box(b, tw, th) ==
    LET tx0a == b[1]
        ty0a == b[2] - th
        tx0b == IF tx0a < 0 THEN Max(b[1], Max(b[1], tx0a)) ELSE tx0a
        ty0b == IF ty0a < 0 THEN Max(b[2], Max(0, ty0a)) ELSE ty0a
        tx1a == tx0b + tw
        ty1 == ty0b + th
        tx0c == IF tx1a > b[3] THEN Max(0, tx0b - (tx1a - b[3])) ELSE tx0b
        tx1b == IF tx1a > b[3] THEN (IF tx0c = 0 THEN tw ELSE b[3]) ELSE tx1a
    IN  <<tx0c, ty0b, tx1b, ty1>>

\* the loop of draw_bboxes with the label outside the test of the ignore list
RECURSIVE draw_bboxes_from_labelled(_, _, _, _, _, _)
draw_bboxes_from_labelled(i, objects, labels, obj_categories, ignore, width) ==
    IF i >= Len(objects) THEN <<>>
    ELSE LET c == obj_categories[i + 1]
             b == bbox_corners(objects[i + 1].bbox)
             t == label_box(b, font[c.name][1], font[c.name][2])
             box == <<DrawCall("box", "rectangle", i, b, c.colour, <<>>, width, "")>>
             label == <<DrawCall("label", "rectangle", i, t, <<>>, c.colour, 0, ""),
                        DrawCall("label", "text", i, <<t[1], t[2]>>, <<>>, White, 0, c.name)>>
         IN  (IF i \notin Range(ignore) THEN box ELSE <<>>)
             \o (IF labels THEN label ELSE <<>>)
             \o draw_bboxes_from_labelled(i + 1, objects, labels, obj_categories, ignore, width)

\* the loop of draw_bboxes without the test of the ignore list
RECURSIVE draw_bboxes_from_all(_, _, _, _, _, _)
draw_bboxes_from_all(i, objects, labels, obj_categories, ignore, width) ==
    IF i >= Len(objects) THEN <<>>
    ELSE LET c == obj_categories[i + 1]
             b == bbox_corners(objects[i + 1].bbox)
             t == label_box(b, font[c.name][1], font[c.name][2])
             box == <<DrawCall("box", "rectangle", i, b, c.colour, <<>>, width, "")>>
             label == <<DrawCall("label", "rectangle", i, t, <<>>, c.colour, 0, ""),
                        DrawCall("label", "text", i, <<t[1], t[2]>>, <<>>, White, 0, c.name)>>
         IN  (box \o (IF labels THEN label ELSE <<>>))
             \o draw_bboxes_from_all(i + 1, objects, labels, obj_categories, ignore, width)

\* the loop of draw_bboxes, lines 154-179, from the object at position i on:
\* the box of an object that is not ignored and, with labels, right after it
\* the filled label rectangle and the category name in it
RECURSIVE draw_bboxes_from(_, _, _, _, _, _)
draw_bboxes_from(i, objects, labels, obj_categories, ignore, width) ==
    IF i >= Len(objects) THEN <<>>
    ELSE LET c == obj_categories[i + 1]
             b == bbox_corners(objects[i + 1].bbox)
             t == label_box(b, font[c.name][1], font[c.name][2])
             box == <<DrawCall("box", "rectangle", i, b, c.colour, <<>>, width, "")>>
             label == <<DrawCall("label", "rectangle", i, t, <<>>, c.colour, 0, ""),
                        DrawCall("label", "text", i, <<t[1], t[2]>>, <<>>, White, 0, c.name)>>
         IN  (IF i \notin Range(ignore)
              THEN box \o (IF labels THEN label ELSE <<>>)
              ELSE <<>>)
             \o draw_bboxes_from(i + 1, objects, labels, obj_categories, ignore, width)

\* draw_bboxes(draw, objects, labels, obj_categories, ignore, width, label_size);
\* the label size is part of the font
draw_bboxes(objects, labels, obj_categories, ignore, width) ==
    draw_bboxes_from(0, objects, labels, obj_categories, ignore, width)

\* the loop of draw_masks leaving at the first segmentation that is no list
RECURSIVE draw_masks_from_stop(_, _, _, _, _)
draw_masks_from_stop(i, objects, obj_categories, ignore, alpha) ==
    IF i >= Len(objects) THEN <<>>
    ELSE LET c == obj_categories[i + 1]
             m == objects[i + 1].segmentation
             fill == c.colour \o <<alpha>>
         IN  IF i \notin Range(ignore) /\ m.type # "list" THEN <<>>
             ELSE (IF i \notin Range(ignore)
                   THEN <<DrawCall("mask", "polygon", i, m.data[1], fill, fill, 0, "")>>
                   ELSE <<>>)
                  \o draw_masks_from_stop(i + 1, objects, obj_categories, ignore, alpha)

\* the loop of draw_masks, lines 187-198, from the object at position i on: the
\* first polygon of an object that is not ignored and whose segmentation is a
\* list; any other segmentation is passed over
RECURSIVE draw_masks_from(_, _, _, _, _)
draw_masks_from(i, objects, obj_categories, ignore, alpha) ==
    IF i >= Len(objects) THEN <<>>
    ELSE LET c == obj_categories[i + 1]
             m == objects[i + 1].segmentation
             fill == c.colour \o <<alpha>>
         IN  (IF i \notin Range(ignore) /\ m.type = "list"
              THEN <<DrawCall("mask", "polygon", i, m.data[1], fill, fill, 0, "")>>
              ELSE <<>>)
             \o draw_masks_from(i + 1, objects, obj_categories, ignore, alpha)

\* draw_masks(draw, objects, obj_categories, ignore, alpha)
draw_masks(objects, obj_categories, ignore, alpha) ==
    draw_masks_from(0, objects, obj_categories, ignore, alpha)

\* compose_image drawing the boxes before the masks
compose_draw_boxes_first(image, bboxes_on, labels_on, masks_on, ignore, width, alpha) ==
    LET objects == SelectSeq(annotations, LAMBDA obj : obj.image_id = image)
        obj_categories_ids == [i \in 1..Len(objects) |-> objects[i].category_id]
    IN  IF \E i \in 1..Len(objects) : obj_categories_ids[i] \notin DOMAIN Data_categories
        THEN [raised |-> "KeyError", drawn |-> <<>>]
        ELSE LET names_colors ==
                     [i \in 1..Len(objects) |-> Data_categories[obj_categories_ids[i]]]
             IN  [raised |-> "none",
                  drawn |->
                      (IF bboxes_on
                       THEN draw_bboxes(objects, labels_on, names_colors, ignore, width)
                       ELSE <<>>)
                      \o (IF masks_on
                          THEN draw_masks(objects, names_colors, ignore, alpha)
                          ELSE <<>>)]

\* compose_image, lines 65-81, for an image whose file opens: the objects of
\* the image, their styles (a category without an entry in Data.categories
\* raises KeyError), then the masks and then the boxes with their labels
compose_draw(image, bboxes_on, labels_on, masks_on, ignore, width, alpha) ==
    LET objects == SelectSeq(annotations, LAMBDA obj : obj.image_id = image)
        obj_categories_ids == [i \in 1..Len(objects) |-> objects[i].category_id]
    IN  IF \E i \in 1..Len(objects) : obj_categories_ids[i] \notin DOMAIN Data_categories
        THEN [raised |-> "KeyError", drawn |-> <<>>]
        ELSE LET names_colors ==
                     [i \in 1..Len(objects) |-> Data_categories[obj_categories_ids[i]]]
             IN  [raised |-> "none",
                  drawn |->
                      (IF masks_on
                       THEN draw_masks(objects, names_colors, ignore, alpha)
                       ELSE <<>>)
                      \o (IF bboxes_on
                          THEN draw_bboxes(objects, labels_on, names_colors, ignore, width)
                          ELSE <<>>)]

\* the ignore lists update_img builds: ascending object positions
Ignores == {SortedSeq(S) : S \in SUBSET (0..(MaxObjs - 1))}

\* the category lists of the records that are composed: both categories of the
\* objects declared, or the second one missing
ComposeCategoryLists ==
    {<<[id |-> 1, name |-> "a"], [id |-> 2, name |-> "b"]>>,
     <<[id |-> 1, name |-> "a"]>>}

\* a font in which the name "b" is wider than the boxes and the name "a" is not
ComposeFont == [name \in {"a", "b"} |-> IF name = "a" THEN <<20, 12>> ELSE <<70, 12>>]

\* the fields of ImageList and Controller, which the drawing does not read
NoViewer ==
    /\ image_list = [i \in 1..Cardinality(ImageIds) |-> i]
    /\ n = -1
    /\ calls = <<>>
    /\ missing = {}
    /\ random_state = [r \in Runs |-> 0]
    /\ parsed = [r \in Runs |-> NotParsed]
    /\ drawn = <<>>
    /\ Unconstructed

\* Data has parsed a record; no image has been composed yet
InitCompose ==
    /\ pc = "compose"
    /\ categories_list \in ComposeCategoryLists
    /\ Data_categories = get_categories(categories_list, 0)
    /\ annotations \in SeqsUpTo(Objects, MaxObjs)
    /\ font = ComposeFont
    /\ NoViewer

\* one call of Data.compose_image(image, bboxes_on, labels_on, masks_on, ignore)
\* with the default width and alpha
Compose ==
    /\ pc = "compose"
    /\ \E image \in ImageIds, b \in BOOLEAN, l \in BOOLEAN, m \in BOOLEAN, ignore \in Ignores :
        \E r \in {compose_draw(image, b, l, m, ignore, DefaultWidth, DefaultAlpha)} :
            /\ compose_args' = [image |-> image, bboxes_on |-> b, labels_on |-> l,
                                masks_on |-> m, ignore |-> ignore]
            /\ img_obj_categories' = ObjCategories(image)
            /\ img_categories' = SortedSeq(Range(ObjCategories(image)))
            /\ raised' = r.raised
            /\ drawn' = r.drawn
            /\ current_composed_image' =
                   IF r.raised = "none"
                   THEN [NoComposite EXCEPT !.image = image, !.ignore = ignore]
                   ELSE current_composed_image
    /\ pc' = "composed"
    /\ UNCHANGED <<listVars, annotations, missing, current_image, globalVars, localVars,
                   selectVars, colourVars, font>>

NextCompose == Compose

SpecCompose == InitCompose /\ [][NextCompose]_vars

\* the boxes [x, y, w, h] and the text sizes (tw, th) of the label placement
LabelBoxes ==
    {<<x, y, w, h>> : x \in (-1)..MaxCoord, y \in (-1)..MaxCoord,
                      w \in 0..MaxCoord, h \in 0..MaxCoord}

TextSizes == (1..MaxText) \X (1..MaxText)

\* one object of one category, its box and the size of its name in the font
InitLabel ==
    /\ pc = "label"
    /\ categories_list = <<[id |-> 1, name |-> "a"]>>
    /\ Data_categories = get_categories(categories_list, 0)
    /\ \E bbox \in LabelBoxes :
        annotations = <<[image_id |-> 1, category_id |-> 1, bbox |-> bbox,
                         segmentation |-> [type |-> "dict", data |-> <<>>]]>>
    /\ font \in [{"a"} -> TextSizes]
    /\ NoViewer

\* one call of draw_bboxes on the objects, with or without labels
DrawBboxes ==
    /\ pc = "label"
    /\ \E labels \in BOOLEAN :
        drawn' = draw_bboxes(annotations, labels,
                             [i \in 1..Len(annotations) |->
                                 Data_categories[annotations[i].category_id]],
                             <<>>, DefaultWidth)
    /\ pc' = "labelled"
    /\ UNCHANGED <<listVars, viewerVars, colourVars, font>>

NextLabel == DrawBboxes

SpecLabel == InitLabel /\ [][NextLabel]_vars

\* ---- claims about the stand-alone ImageList

\* calls i+1 .. j were all of the operation op
AllOps(i, j, op) == \A m \in (i + 1)..j : calls[m].op = op

\* C1: on a non-empty list of size N the k-th next() after construction returns
\* items[(k-1) mod N], and from the cursor on the first element N further next()
\* calls return the first element again.
C1_NextCycles ==
    (pc = "list" /\ image_list # <<>>) =>
        /\ \A k \in 1..Len(calls) :
               AllOps(0, k, "next") =>
                   /\ calls[k].raised = "none"
                   /\ calls[k].value = image_list[((k - 1) % max) + 1]
                   /\ calls[k].n = (k - 1) % max
        /\ \A i \in 1..Len(calls) :
               (calls[i].n = 0 /\ i + max <= Len(calls) /\ AllOps(i, i + max, "next")) =>
                   /\ calls[i + max].raised = "none"
                   /\ calls[i + max].value = image_list[1]
                   /\ calls[i + max].n = 0

\* C1 witness: a list of two or more distinct entries on which next() alone has
\* gone once around and returned the first element a second time
C1_Witness ==
    /\ pc = "list"
    /\ max >= 2
    /\ image_list[1] # image_list[2]
    /\ Len(calls) = max + 1
    /\ AllOps(0, max + 1, "next")
    /\ calls[max + 1].value = image_list[1]

\* C2: prev() right after construction of a non-empty list returns the last
\* element items[N-1] and raises no error.
C2_PrevAfterConstructionIsLast ==
    (pc = "list" /\ image_list # <<>> /\ Len(calls) >= 1 /\ calls[1].op = "prev") =>
        /\ calls[1].raised = "none"
        /\ calls[1].value = image_list[max]
        /\ calls[1].n = max - 1

\* C3: after any calls of next() and prev() on a non-empty list the cursor
\* position n lies in [-1, count-1].
C3_PositionInRange ==
    (pc = "list" /\ image_list # <<>>) => (n >= -1 /\ n <= max - 1)

\* C4 as claimed: from the initial state next() and then prev() returns, from
\* prev(), the element next() returned.
C4_NextPrevRoundTrip ==
    (pc = "list" /\ image_list # <<>> /\ Len(calls) >= 2
        /\ calls[1].op = "next" /\ calls[2].op = "prev") =>
        /\ calls[2].raised = "none"
        /\ calls[2].value = calls[1].value

\* C4 as amended: from the initial state next() returns the first element and
\* the prev() after it wraps at position 0: it leaves the cursor on position
\* N-1 and returns the last element items[N-1].
C4_NextPrevWrapsToLast ==
    (pc = "list" /\ image_list # <<>> /\ Len(calls) >= 2
        /\ calls[1].op = "next" /\ calls[2].op = "prev") =>
        /\ calls[1].raised = "none" /\ calls[1].value = image_list[1] /\ calls[1].n = 0
        /\ calls[2].raised = "none"
        /\ calls[2].value = image_list[max]
        /\ calls[2].n = max - 1

\* C4 witness: next() then prev() on a list whose first and last entries differ
C4_Witness ==
    /\ pc = "list"
    /\ max >= 2
    /\ image_list[1] # image_list[max]
    /\ Len(calls) = 2
    /\ calls[1].op = "next"
    /\ calls[2].op = "prev"

\* C5: from the cursor on the first element (position 0) of a list of size N,
\* N successive prev() calls visit items[N-1], items[N-2], ..., items[0] and end
\* on position 0, without error.
C5_PrevCycles ==
    (pc = "list" /\ image_list # <<>>) =>
        \A i \in 1..Len(calls) : \A k \in 1..max :
            (calls[i].n = 0 /\ i + k <= Len(calls) /\ AllOps(i, i + k, "prev")) =>
                /\ calls[i + k].raised = "none"
                /\ calls[i + k].value = image_list[max - k + 1]
                /\ calls[i + k].n = max - k

\* C5 witness: N >= 2 prev() calls made from position 0 have come back to it
C5_Witness ==
    /\ pc = "list"
    /\ max >= 2
    /\ image_list[1] # image_list[2]
    /\ \E i \in 1..Len(calls) :
           /\ calls[i].n = 0
           /\ i + max = Len(calls)
           /\ AllOps(i, i + max, "prev")
           /\ n = 0

\* C6: next() on an empty image list fails with EmptyCollectionError, not with
\* an index-out-of-range failure.
C6_EmptyListRaisesEmptyCollectionError ==
    (pc = "list" /\ image_list = <<>>) =>
        \A k \in 1..Len(calls) :
            calls[k].op = "next" => calls[k].raised = "EmptyCollectionError"

\* ---- claims about the selection filter of the viewer

\* a handler of the running viewer has reached the compose call of update_img
UpdateImgCalled ==
    \/ MenuToggle \/ SliderChange
    \/ ToggleBboxes \/ ToggleLabels \/ ToggleMasks \/ ToggleAll
    \/ SelectCategory \/ SelectObject
    \/ ((NextImg \/ PrevImg) /\ raised' = "none")

\* the object indices of the current image
CurrentObjects == 0..(Len(ObjCategories(current_image)) - 1)

\* the category ids at the selected positions of the category list
SelectedCategoryIds == {img_categories[ci + 1] : ci \in Range(selected_cats)}

\* the category ids of the selected objects of the object list
CategoryIdsOfSelectedObjs == {img_obj_categories[oi + 1] : oi \in Range(selected_objs)}

\* the objects of the object list whose category is selected
ObjsOfSelectedCategories ==
    {i \in 0..(Len(img_obj_categories) - 1) : img_obj_categories[i + 1] \in SelectedCategoryIds}

\* what C7 says of the ignore list passed to compose
IgnoreIsUnselectedOfCurrentImage ==
    /\ compose_args.image = current_image
    /\ Range(compose_args.ignore) =
           IF selected_objs = NONE THEN {}
           ELSE {i \in CurrentObjects : i \notin Range(selected_objs)}

\* C7: in update_img the ignore set passed to composition is exactly the object
\* indices of the current image that are not in the object selection: empty
\* when no selection was made, every index when the selection is empty.
C7_IgnoreIsUnselectedObjects ==
    [][UpdateImgCalled => IgnoreIsUnselectedOfCurrentImage']_vars

\* what C8 says of the selection and the ignore list after select_category
CategorySelectionOfCurrentImage ==
    LET cats == ObjCategories(current_image)
    IN  /\ Range(selected_objs) = {i \in CurrentObjects : cats[i + 1] \in SelectedCategoryIds}
        /\ Range(compose_args.ignore) =
               {i \in CurrentObjects : cats[i + 1] \notin SelectedCategoryIds}

\* C8: after select_category the object selection is exactly the indices of the
\* current image's objects whose category is selected, and the ignore set is
\* exactly the objects of the categories not selected.
C8_SelectCategorySelectsItsObjects ==
    [][SelectCategory => CategorySelectionOfCurrentImage']_vars

C11_FailedNavigationLeavesState ==
    [][((NextImg \/ PrevImg) /\ raised' = "FileNotFoundError") =>
          /\ n' = n
          /\ current_image' = current_image
          /\ current_composed_image' = current_composed_image]_vars

\* the controller events other than navigation
OtherEvent ==
    \/ MenuToggle \/ SliderChange
    \/ ToggleBboxes \/ ToggleLabels \/ ToggleMasks \/ ToggleAll
    \/ SelectCategory \/ SelectObject
    \/ SaveImage

\* C18: only navigation changes the cursor: update_img from a menu or slider
\* change, the layer toggles, toggle_all, select_category, select_object and
\* save_image, with the compose call each of them makes, leave the cursor
\* position and current_image as they were.
C18_OnlyNavigationMovesCursor ==
    [][(n' = n /\ current_image' = current_image) \/ ~OtherEvent]_vars

\* C18 witness: the cursor is on the second image, and a selection and a layer
\* toggle have been handled there
C18_Witness ==
    /\ pc = "running"
    /\ n = 1
    /\ current_image = image_list[2]
    /\ selected_objs # NONE
    /\ ~bboxes_on_local
    /\ current_composed_image.image = current_image
    /\ raised = "none"

\* ---- claims about the colours of the categories

\* the ids of the categories the record declares
DeclaredIds == {categories_list[i].id : i \in 1..Len(categories_list)}

\* C13: the mapping get_categories returns has exactly the distinct category
\* ids of the record's categories list as its keys, whatever the length of the
\* list, also beyond the 80 colours of the palette; so every declared category
\* has a style when an image is composed.
C13_EveryDeclaredCategoryHasStyle ==
    \A r \in Runs :
        parsed[r].done => DOMAIN parsed[r].categories = DeclaredIds

\* C14: two calls of get_categories on the same category list, in one run or
\* in two, return the same mapping, whatever random draws came before or
\* between them.
C14_ColourAssignmentDeterministic ==
    \A r1, r2 \in Runs :
        (parsed[r1].done /\ parsed[r2].done) =>
            parsed[r1].categories = parsed[r2].categories

\* C14 witness: two runs have assigned colours to two or more categories, and
\* their generators were in different states when they did
C14_Witness ==
    /\ pc = "parse"
    /\ parsed[1].done /\ parsed[2].done
    /\ parsed[1].entered # parsed[2].entered
    /\ parsed[1].entered # random_seed(Seed)
    /\ Cardinality(DOMAIN parsed[1].categories) >= 2
    /\ parsed[1].categories = parsed[2].categories

\* ---- claims about what a compose call draws

\* the objects of the image of the last compose call, in the record's order
ComposedObjects ==
    SelectSeq(annotations, LAMBDA obj : obj.image_id = compose_args.image)

\* the positions in drawn of the calls of a layer, and of those for one object
CallsOf(layer) == {i \in 1..Len(drawn) : drawn[i].layer = layer}

CallsFor(layer, k) == {i \in CallsOf(layer) : drawn[i].obj = k}

\* a compose call with all three layers on has run to its end
AllLayersComposed ==
    /\ pc = "composed"
    /\ raised = "none"
    /\ compose_args.bboxes_on /\ compose_args.labels_on /\ compose_args.masks_on

\* C12 as claimed: in one compose call with all layers on every mask is drawn
\* before every box, and every box before every label, for any number of
\* objects.
C12_MasksThenBoxesThenLabels ==
    AllLayersComposed =>
        /\ \A i \in CallsOf("mask"), j \in CallsOf("box") : i < j
        /\ \A i \in CallsOf("box"), j \in CallsOf("label") : i < j

\* C12 as amended: in one compose call with all layers on every mask is drawn
\* before every box and every label; the boxes and labels follow object by
\* object in the order of the objects, the box of an object right before its
\* own label, so that the label of an object is drawn before the box of every
\* later object.
C12_MasksThenBoxAndLabelPerObject ==
    AllLayersComposed =>
        /\ \A i \in CallsOf("mask"), j \in CallsOf("box") \cup CallsOf("label") : i < j
        /\ \A i \in CallsOf("box"), j \in CallsOf("label") :
               /\ drawn[i].obj = drawn[j].obj => i < j
               /\ drawn[i].obj > drawn[j].obj => i > j
        /\ \A i \in CallsOf("box") :
               /\ i + 2 <= Len(drawn)
               /\ drawn[i + 1].layer = "label" /\ drawn[i + 1].obj = drawn[i].obj
               /\ drawn[i + 2].layer = "label" /\ drawn[i + 2].obj = drawn[i].obj

\* C12 witness: two objects of the image, neither ignored, both with a polygon:
\* two masks, then the box and the label of the first object, then the box and
\* the label of the second
C12_Witness ==
    /\ AllLayersComposed
    /\ Len(ComposedObjects) = 2
    /\ Cardinality(CallsOf("mask")) = 2
    /\ Cardinality(CallsOf("box")) = 2
    /\ \E i \in CallsFor("label", 0), j \in CallsFor("box", 1) : i < j

\* C15: for a box with top y0 >= 0 and a text of height th > 0 the top of the
\* label is y0 - th when that is not negative and y0 otherwise; it is never
\* negative.
C15_LabelTopClampedToBoxTop ==
    (pc = "labelled" /\ CallsOf("label") # {} /\ annotations[1].bbox[2] >= 0) =>
        LET y0 == annotations[1].bbox[2]
            th == font["a"][2]
        IN  \A i \in CallsOf("label") :
                /\ drawn[i].xy[2] = (IF y0 - th >= 0 THEN y0 - th ELSE y0)
                /\ drawn[i].xy[2] >= 0

\* C15 witness: a label higher than the room above a box whose top is below
\* the image top; the label starts at the box top
C15_Witness ==
    /\ pc = "labelled"
    /\ CallsOf("label") # {}
    /\ annotations[1].bbox[2] > 0
    /\ annotations[1].bbox[2] - font["a"][2] < 0
    /\ \A i \in CallsOf("label") : drawn[i].xy[2] = annotations[1].bbox[2]

\* the label rectangle among the calls of draw_bboxes on one object
LabelRectangle == drawn[CHOOSE i \in CallsOf("label") : drawn[i].op = "rectangle"].xy

\* C16: when a label of text width tw, anchored at the box's left edge, would
\* reach past the box's right edge, its left edge becomes max(0, left -
\* overflow) with overflow = (left + tw) - right; the left edge is never
\* negative and the rectangle is exactly tw wide: its right edge is the box's
\* right edge unless the left edge was clamped to 0.
C16_LabelShiftedLeftKeepsWidth ==
    LET left == annotations[1].bbox[1]
        right == annotations[1].bbox[1] + annotations[1].bbox[3]
        tw == font["a"][1]
        overflow == (left + tw) - right
    IN  (pc = "labelled" /\ CallsOf("label") # {} /\ left + tw > right) =>
            /\ LabelRectangle[1] = Max(0, left - overflow)
            /\ LabelRectangle[1] >= 0
            /\ LabelRectangle[3] - LabelRectangle[1] = tw
            /\ left - overflow >= 0 => LabelRectangle[3] = right
            /\ left - overflow < 0 => (LabelRectangle[1] = 0 /\ LabelRectangle[3] = tw)

\* C16 witness: a text wider than the box's right edge is far from the image's
\* left edge; the label starts at 0 and ends beyond the box
C16_Witness ==
    /\ pc = "labelled"
    /\ CallsOf("label") # {}
    /\ annotations[1].bbox[1] > 0
    /\ font["a"][1] > annotations[1].bbox[1] + annotations[1].bbox[3]
    /\ LabelRectangle[1] = 0
    /\ LabelRectangle[3] = font["a"][1]

\* C17: with the boxes on, the masks and labels off and nothing ignored, a
\* compose call that runs to its end draws, for every object of the image, one
\* rectangle outline with the corners (x, y, x + w, y + h) in the colour of the
\* object's category, and nothing else: nothing for objects of other images.
C17_OneBoxPerObjectOfTheImage ==
    (pc = "composed" /\ raised = "none"
        /\ compose_args.bboxes_on /\ ~compose_args.masks_on /\ ~compose_args.labels_on
        /\ compose_args.ignore = <<>>) =>
        /\ Len(drawn) = Len(ComposedObjects)
        /\ \A k \in 1..Len(ComposedObjects) :
               LET obj == ComposedObjects[k]
               IN  /\ drawn[k].op = "rectangle"
                   /\ drawn[k].obj = k - 1
                   /\ drawn[k].xy = <<obj.bbox[1], obj.bbox[2],
                                      obj.bbox[1] + obj.bbox[3], obj.bbox[2] + obj.bbox[4]>>
                   /\ drawn[k].outline = Data_categories[obj.category_id].colour
                   /\ drawn[k].fill = <<>>

\* C17 witness: the record holds an object of the image with the box
\* [10, 10, 50, 50] and an object of another image; the one rectangle drawn
\* has the corners (10, 10) and (60, 60)
C17_Witness ==
    /\ pc = "composed" /\ raised = "none"
    /\ compose_args.bboxes_on /\ ~compose_args.masks_on /\ ~compose_args.labels_on
    /\ compose_args.ignore = <<>>
    /\ Len(annotations) = 2
    /\ Len(ComposedObjects) = 1
    /\ ComposedObjects[1].bbox = <<10, 10, 50, 50>>
    /\ Len(drawn) = 1
    /\ drawn[1].xy = <<10, 10, 60, 60>>

\* C19: in a compose call that runs to its end an object whose position is in
\* the ignore list gets no draw call in any layer; every other object gets its
\* box when the boxes are on, and its mask when the masks are on and its
\* segmentation is a polygon.
C19_IgnoredObjectsNotDrawn ==
    (pc = "composed" /\ raised = "none") =>
        \A k \in 0..(Len(ComposedObjects) - 1) :
            IF k \in Range(compose_args.ignore)
            THEN \A i \in 1..Len(drawn) : drawn[i].obj # k
            ELSE /\ compose_args.bboxes_on => Cardinality(CallsFor("box", k)) = 1
                 /\ (compose_args.masks_on /\ ComposedObjects[k + 1].segmentation.type = "list")
                        => Cardinality(CallsFor("mask", k)) = 1

\* C19 witness: of two polygon objects of the image the first is ignored and
\* the second is not, with boxes and masks on; only the second is drawn
C19_Witness ==
    /\ pc = "composed" /\ raised = "none"
    /\ compose_args.bboxes_on /\ compose_args.masks_on
    /\ Len(ComposedObjects) = 2
    /\ \A k \in 1..2 : ComposedObjects[k].segmentation.type = "list"
    /\ compose_args.ignore = <<0>>
    /\ CallsFor("box", 1) # {} /\ CallsFor("mask", 1) # {}
    /\ \A i \in 1..Len(drawn) : drawn[i].obj = 1

\* every object of the image of the last compose call has a style
ComposedObjectsHaveStyle ==
    \A k \in 1..Len(ComposedObjects) :
        ComposedObjects[k].category_id \in DOMAIN Data_categories

\* C20: an object whose segmentation is not a polygon list but an encoded form
\* is passed over by the mask layer without an error: the compose call runs to
\* its end, draws the masks of the other objects, and draws the box and the
\* label of that object when those layers are on.
C20_EncodedSegmentationSkipped ==
    (pc = "composed" /\ compose_args.masks_on /\ ComposedObjectsHaveStyle) =>
        \A k \in 0..(Len(ComposedObjects) - 1) :
            ComposedObjects[k + 1].segmentation.type = "dict" =>
                /\ raised = "none"
                /\ current_composed_image.image = compose_args.image
                /\ CallsFor("mask", k) = {}
                /\ \A j \in 0..(Len(ComposedObjects) - 1) :
                       (j \notin Range(compose_args.ignore)
                           /\ ComposedObjects[j + 1].segmentation.type = "list")
                           => CallsFor("mask", j) # {}
                /\ (compose_args.bboxes_on /\ k \notin Range(compose_args.ignore))
                       => /\ CallsFor("box", k) # {}
                          /\ compose_args.labels_on => CallsFor("label", k) # {}

\* C20 witness: an object with an encoded segmentation comes before an object
\* with a polygon on the same image, all layers on and nothing ignored; the
\* second object has its mask, the first its box and its label
C20_Witness ==
    /\ AllLayersComposed
    /\ compose_args.ignore = <<>>
    /\ Len(ComposedObjects) = 2
    /\ ComposedObjects[1].segmentation.type = "dict"
    /\ ComposedObjects[2].segmentation.type = "list"
    /\ CallsFor("mask", 0) = {} /\ CallsFor("mask", 1) # {}
    /\ CallsFor("box", 0) # {} /\ CallsFor("label", 0) # {}

\* C21: in a compose call that runs to its end a category label is drawn for
\* the object at position i if and only if the boxes are on, the labels are on
\* and i is not in the ignore list; with the boxes off no label is drawn even
\* when the labels are on.
C21_LabelIffBoxesLabelsNotIgnored ==
    (pc = "composed" /\ raised = "none") =>
        /\ \A k \in 0..(Len(ComposedObjects) - 1) :
               (CallsFor("label", k) # {}) <=>
                   (compose_args.bboxes_on /\ compose_args.labels_on
                       /\ k \notin Range(compose_args.ignore))
        /\ \A i \in CallsOf("label") : drawn[i].obj \in 0..(Len(ComposedObjects) - 1)
        /\ ~compose_args.bboxes_on => CallsOf("label") = {}

\* C21 witness: boxes and labels on, of two objects of the image the second is
\* ignored; the first has its label, the second has none
C21_Witness ==
    /\ pc = "composed" /\ raised = "none"
    /\ compose_args.bboxes_on /\ compose_args.labels_on
    /\ Len(ComposedObjects) = 2
    /\ compose_args.ignore = <<1>>
    /\ CallsFor("label", 0) # {}
    /\ CallsFor("label", 1) = {}

\* ---- claims about the viewer's cursor, selection and layer flags

\* C22: in the viewer over a record of N >= 1 images, after construction and
\* after any next_image / previous_image calls, the cursor position n is in
\* [0, N-1] and current_image is image_list[n].
C22_CursorOnCurrentImage ==
    (pc = "running" /\ Len(image_list) >= 1) =>
        /\ n >= 0 /\ n <= Len(image_list) - 1
        /\ current_image = image_list[n + 1]

\* C22 witness: navigation has taken the viewer to the last of two or more
\* images with nothing selected there
C22_Witness ==
    /\ pc = "running"
    /\ raised = "none"
    /\ Len(image_list) >= 2
    /\ n = Len(image_list) - 1
    /\ current_image = image_list[Len(image_list)]
    /\ selected_objs = NONE /\ selected_cats = NONE
    /\ current_composed_image.image = current_image

\* every selected object position is a position in the object list of the
\* current image
SelectedObjsOfCurrentImage ==
    (pc = "running" /\ selected_objs # NONE) =>
        \A i \in 1..Len(selected_objs) :
            selected_objs[i] \in 0..(Len(ObjCategories(current_image)) - 1)

\* C23: after every next_img / prev_img that succeeds both selections are
\* reset to none made and the composite of the new image is composed with an
\* empty ignore list; and in every reachable state every selected object
\* position is a valid position in the current image's object list.
C23_SelectionNeverCarriesOver ==
    /\ [][((NextImg \/ PrevImg) /\ raised' = "none") =>
            /\ selected_cats' = NONE /\ selected_objs' = NONE
            /\ compose_args'.ignore = <<>>
            /\ current_composed_image'.image = current_image'
            /\ current_composed_image'.ignore = <<>>]_vars
    /\ []SelectedObjsOfCurrentImage

\* C24: toggle_bboxes leaves the local labels and masks flags as they were,
\* toggle_labels the local boxes and masks flags, toggle_masks the local boxes
\* and labels flags, in every reachable state.
C24_ToggleChangesOnlyItsLayer ==
    [][/\ ToggleBboxes => (labels_on_local' = labels_on_local /\ masks_on_local' = masks_on_local)
       /\ ToggleLabels => (bboxes_on_local' = bboxes_on_local /\ masks_on_local' = masks_on_local)
       /\ ToggleMasks => (bboxes_on_local' = bboxes_on_local /\ labels_on_local' = labels_on_local)
      ]_vars

====
